---- MODULE Spec2Model ----
(***************************************************************************)
(* Model of src/project_for_test/src/main.rs: the WebSocket subscription   *)
(* loop (connect_to_quicknode_ws), the transaction fetch                   *)
(* (fetch_transaction), the transaction walk (decode_transaction), the     *)
(* account resolver (convert_compiled_instruction) and the event sink      *)
(* (save_event).                                                           *)
(*                                                                         *)
(* Machine integers: u64, i64 and usize are 64 bits wide in the program.   *)
(* The model keeps their two's-complement arithmetic at the width WordBits *)
(* (in place of 64), so that the casts and the wrap-around stay visible    *)
(* with numbers TLC can enumerate.  The build profile decides what an      *)
(* arithmetic overflow does: with overflow checks (debug) it panics,       *)
(* without them (release) it wraps.                                        *)
(***************************************************************************)
EXTENDS Integers, Sequences, FiniteSets, TLC

(* ------------------------------ bounds -------------------------------- *)

\* width of the machine words of the model (stands for 64)
WordBits == 10
\* messages the stream delivers in a run of Spec
MaxNotifs == 2
\* messages the stream delivers in a run of SpecWindow
WindowNotifs == 4
\* largest value of a header field in SpecResolver
MaxHdr == 2
\* longest account key table in SpecResolver
MaxKeys == 5

(* -------------------------- program constants -------------------------- *)

RAYDIUM_PROGRAM_ID == "675kPX9MHTjS2zt1qfr1NYHuzeLXfQM9H24wFSUt1Mp8"

\* main.rs:78  if slot_diff >= 100
SlotLimit == 100

(* --------------------------- machine integers -------------------------- *)

Word == 2 ^ WordBits
HalfWord == 2 ^ (WordBits - 1)
WordMax == Word - 1

\* `x as i64` for an unsigned word x
as_i64(x) == IF x >= HalfWord THEN x - Word ELSE x

\* does a signed result leave the range of i64
i64_overflows(d) == d < -HalfWord \/ d >= HalfWord

\* a signed result wrapped into i64 (release build)
wrap_i64(d) == ((d + HalfWord) % Word) - HalfWord

\* an unsigned result wrapped into usize (release build)
wrap_usize(d) == d % Word

\* Option<T>: None is the empty set, Some(v) is {v}
None == {}
Some(v) == {v}
is_none(o) == o = {}
unwrap(o) == CHOOSE v \in o : TRUE
\* a default that is not the one passed
unwrap_or_placeholder(o, d) == IF o = {} THEN "unknown" ELSE CHOOSE v \in o : TRUE
unwrap_or(o, d) == IF o = {} THEN d ELSE CHOOSE v \in o : TRUE


(* ------------------- convert_compiled_instruction ---------------------- *)

\* the signer boundary taken one index too far
is_signer_inclusive(i, num_signers) == i <= num_signers

\* main.rs:186  is_signer: i < num_signers
is_signer(i, num_signers) == i < num_signers

\* main.rs:187  is_writable: i < num_writable_accounts
is_writable(i, num_writable_accounts) == i < num_writable_accounts

\* main.rs:177-189  cix.accounts.iter().filter_map(..).collect(): an index
\* outside the key table yields no element, the other indices keep their order
resolve_accounts(accounts, account_keys, num_signers, num_writable_accounts) ==
    LET kept == SelectSeq(accounts, LAMBDA i : ~(i >= Len(account_keys)))
    IN  [j \in 1..Len(kept) |->
            [pubkey      |-> account_keys[kept[j] + 1],
             is_signer   |-> is_signer(kept[j], num_signers),
             is_writable |-> is_writable(kept[j], num_writable_accounts)]]

\* main.rs:155  the bounds check of the program index
program_index_out_of_range(program_id_index, account_keys) ==
    program_id_index >= Len(account_keys)

\* a filter that lets every program through
filter_rejects_nothing(program_id) == FALSE

\* main.rs:166-169  the program filter
filter_rejects(program_id) == program_id # RAYDIUM_PROGRAM_ID

\* the resolver without the bounds check of main.rs:155: indexing account_keys
\* with a program index outside the table panics
convert_without_program_check(cix, msg, checks) ==
    LET account_keys == msg.account_keys
        program_id_index == cix.program_id_index
    IN
    IF program_id_index >= Len(account_keys)
    THEN [kind |-> "Panic"]
    ELSE
      LET program_id == account_keys[program_id_index + 1] IN
      IF filter_rejects(program_id)
      THEN [kind |-> "None"]
      ELSE
        LET header == msg.header
            num_signers == header.num_required_signatures
            diff == num_signers - header.num_readonly_signed_accounts
            num_writable_signers == wrap_usize(diff)
            sum == num_writable_signers + header.num_readonly_unsigned_accounts
            num_writable_accounts == wrap_usize(sum)
        IN
        IF checks /\ (diff < 0 \/ sum >= Word)
        THEN [kind |-> "Panic"]
        ELSE [kind |-> "Some",
              ix |-> [program_id |-> program_id,
                      accounts |-> resolve_accounts(cix.accounts, account_keys,
                                       num_signers, num_writable_accounts),
                      data |-> cix.data]]

\* main.rs:148-201  None, Some(Instruction) or a panic of the arithmetic at
\* lines 174-175 (usize, checked in a build with overflow checks)
convert_compiled_instruction(cix, msg, checks) ==
    LET account_keys == msg.account_keys
        program_id_index == cix.program_id_index
    IN
    IF program_index_out_of_range(program_id_index, account_keys)
    THEN [kind |-> "None"]
    ELSE
      LET program_id == account_keys[program_id_index + 1] IN
      IF filter_rejects(program_id)
      THEN [kind |-> "None"]
      ELSE
        LET header == msg.header
            num_signers == header.num_required_signatures
            diff == num_signers - header.num_readonly_signed_accounts
            num_writable_signers == wrap_usize(diff)
            sum == num_writable_signers + header.num_readonly_unsigned_accounts
            num_writable_accounts == wrap_usize(sum)
        IN
        IF checks /\ (diff < 0 \/ sum >= Word)
        THEN [kind |-> "Panic"]
        ELSE [kind |-> "Some",
              ix |-> [program_id |-> program_id,
                      accounts |-> resolve_accounts(cix.accounts, account_keys,
                                       num_signers, num_writable_accounts),
                      data |-> cix.data]]

(* ------------------------- decode_instruction --------------------------- *)

\* main.rs:137-138  the Raydium AMM v4 decoder of the carbon crate, seen from its
\* call: the payload is a variant tag followed by the variant's fields; a payload
\* that matches no variant layout (unknown tag, truncated) decodes to nothing
decode_instruction(ix) ==
    LET data == ix.data IN
    IF Len(data) = 3 /\ data[1] = "SwapBaseIn"
    THEN Some([variant |-> "SwapBaseIn", amount_in |-> data[2],
               minimum_amount_out |-> data[3]])
    ELSE IF Len(data) = 3 /\ data[1] = "SwapBaseOut"
    THEN Some([variant |-> "SwapBaseOut"])
    ELSE None

(* ----------------------------- save_event ------------------------------- *)

\* a sink that writes the record at the head of the file
save_event_at_head(f, signature, amount_in, min_out, slot) ==
    <<[transaction_signature |-> signature, slot |-> slot,
       amount_in |-> amount_in, min_amount_out |-> min_out]>> \o f

\* a sink that keeps one copy of equal records
save_event_dedup(f, signature, amount_in, min_out, slot) ==
    LET rec == [transaction_signature |-> signature, slot |-> slot,
                amount_in |-> amount_in, min_amount_out |-> min_out]
    IN IF \E j \in 1..Len(f) : f[j] = rec THEN f ELSE Append(f, rec)

\* a sink opened for writing without append: the record replaces the content
save_event_truncating(f, signature, amount_in, min_out, slot) ==
    <<[transaction_signature |-> signature, slot |-> slot,
       amount_in |-> amount_in, min_amount_out |-> min_out]>>

\* main.rs:205-216  one record appended to swap_events.json
save_event(f, signature, amount_in, min_out, slot) ==
    Append(f, [transaction_signature |-> signature, slot |-> slot,
               amount_in |-> amount_in, min_amount_out |-> min_out])

(* --------------------------- fetch_transaction -------------------------- *)

\* main.rs:101-129  every failing step of the chain (`?`, the null result)
\* returns None; only a response that passes all of them gives Some(tx)
fetch_transaction(response) ==
    IF response.kind = "ok" THEN Some(response.tx) ELSE None

(* ------------------------------ the loop -------------------------------- *)

\* main.rs:53-56  serde_json::from_str(&raw).unwrap_or_else(.. json!({}))
EmptyJson == [slot |-> None, signature |-> None]
\* a parser that reads unparsable text as a notification of slot 0
parse_json_slot_zero(raw) ==
    IF raw.parses THEN raw.json ELSE [slot |-> Some(0), signature |-> None]
parse_json(raw) == IF raw.parses THEN raw.json ELSE EmptyJson

\* a window that never closes
window_never_closed(slot_diff) == FALSE

\* main.rs:78  the window comparison
window_closed(slot_diff) == slot_diff >= SlotLimit

\* a break that goes on reading
break_keeps_reading == "read"

\* main.rs:80, 91  break leaves the loop, connect_to_quicknode_ws returns Ok(())
after_break == "done"

\* a continue that leaves the loop
continue_breaks == "done"

\* main.rs:62, 93  continue and the empty arm go back to read.next()
after_continue == "read"

\* a window armed anew by every slot-carrying notification
arm_always(initial, s) == Some(s)

\* main.rs:69-72  if initial_slot.is_none() { initial_slot = Some(slot); }
arm(initial, s) == IF is_none(initial) THEN Some(s) ELSE initial

VARIABLES
    overflow_checks,  \* build profile: arithmetic overflow panics (TRUE) or wraps
    pc,               \* "read" | "fetch" | "walk" | "done" | "panicked"
    initial_slot,     \* main.rs:48  Option<u64>
    slot,             \* main.rs:58  slot of the notification being handled
    signature,        \* main.rs:66  its signature
    tx,               \* main.rs:85  Option<VersionedTransaction> being walked
    cix_i,            \* main.rs:135 position of the walk (1-based), 0 outside
    file,             \* swap_events.json: the records, in file order
    nread,            \* messages read from the stream so far
    exit_reason,      \* why the loop was left: "none" | "window" | "transport" | "eof"
    last_msg,         \* history: what read.next() returned last
    seen,             \* history: the slot-carrying notifications read [n, slot, sig]
    fetches,          \* history: fetch_transaction calls [n, signature, found]
    calls,            \* history: convert_compiled_instruction calls and the decoder's part
    prov              \* history: for each record of file, its notification and instruction

vars == <<overflow_checks, pc, initial_slot, slot, signature, tx, cix_i, file,
          nread, exit_reason, last_msg, seen, fetches, calls, prov>>

Init ==
    /\ overflow_checks \in BOOLEAN
    /\ pc = "read"
    /\ initial_slot = None
    /\ slot = 0
    /\ signature = ""
    /\ tx = None
    /\ cix_i = 0
    /\ file = <<>>
    /\ nread = 0
    /\ exit_reason = "none"
    /\ last_msg = [kind |-> "none"]
    /\ seen = <<>>
    /\ fetches = <<>>
    /\ calls = <<>>
    /\ prov = <<>>

\* main.rs:50  read.next() returned None: the stream is over, the loop ends
read_end ==
    /\ pc = "read"
    /\ pc' = "done"
    /\ exit_reason' = "eof"
    /\ last_msg' = [kind |-> "end"]
    /\ UNCHANGED <<overflow_checks, initial_slot, slot, signature, tx, cix_i,
                   file, nread, seen, fetches, calls, prov>>

\* main.rs:89-92  Err(e) => break
read_err ==
    /\ pc = "read"
    /\ nread' = nread + 1
    /\ pc' = after_break
    /\ exit_reason' = "transport"
    /\ last_msg' = [kind |-> "err"]
    /\ UNCHANGED <<overflow_checks, initial_slot, slot, signature, tx, cix_i,
                   file, seen, fetches, calls, prov>>

\* main.rs:93  _ => {}  (a binary, ping, pong or close frame)
read_other ==
    /\ pc = "read"
    /\ nread' = nread + 1
    /\ pc' = after_continue
    /\ last_msg' = [kind |-> "other"]
    /\ UNCHANGED <<overflow_checks, initial_slot, slot, signature, tx, cix_i,
                   file, exit_reason, seen, fetches, calls, prov>>

\* main.rs:52-85  Ok(Message::Text(raw)), up to the await of fetch_transaction
read_text(raw) ==
    /\ pc = "read"
    /\ nread' = nread + 1
    /\ last_msg' = [kind |-> "text", raw |-> raw]
    /\ LET json_resp == parse_json(raw) IN
       IF is_none(json_resp.slot)
       THEN /\ pc' = after_continue
            /\ UNCHANGED <<initial_slot, slot, signature, exit_reason, seen, fetches>>
       ELSE
         LET s == unwrap(json_resp.slot)
             sig == unwrap_or(json_resp.signature, "")
             start == arm(initial_slot, s)
             start_slot == unwrap(start)
             d == as_i64(s) - as_i64(start_slot)
             slot_diff == wrap_i64(d)
         IN
         /\ slot' = s
         /\ signature' = sig
         /\ initial_slot' = start
         /\ seen' = Append(seen, [n |-> nread', slot |-> s,
                                      sig |-> json_resp.signature])
         /\ IF overflow_checks /\ i64_overflows(d)
            THEN /\ pc' = "panicked"
                 /\ UNCHANGED <<exit_reason, fetches>>
            ELSE IF window_closed(slot_diff)
            THEN /\ pc' = after_break
                 /\ exit_reason' = "window"
                 /\ UNCHANGED fetches
            ELSE /\ pc' = "fetch"
                 /\ fetches' = Append(fetches, [n |-> nread', signature |-> sig,
                                                found |-> FALSE])
                 /\ UNCHANGED exit_reason
    /\ UNCHANGED <<overflow_checks, tx, cix_i, file, calls, prov>>

\* a fetch whose failure is propagated and ends the session
fetch_returns_fatal(response) ==
    /\ pc = "fetch"
    /\ LET r == fetch_transaction(response) IN
       IF is_none(r)
       THEN /\ pc' = "done"
            /\ UNCHANGED <<tx, cix_i, fetches>>
       ELSE /\ tx' = r
            /\ fetches' = [fetches EXCEPT ![Len(fetches)].found = TRUE]
            /\ IF Len(unwrap(r).instructions) = 0
               THEN pc' = "read" /\ cix_i' = 0
               ELSE pc' = "walk" /\ cix_i' = 1
    /\ UNCHANGED <<overflow_checks, initial_slot, slot, signature, file, nread,
                   exit_reason, last_msg, seen, calls, prov>>

\* main.rs:85-87  fetch_transaction returned: None goes on with the next
\* message, Some(tx) enters decode_transaction (a transaction without
\* instructions leaves it at once)
fetch_returns(response) ==
    /\ pc = "fetch"
    /\ LET r == fetch_transaction(response) IN
       IF is_none(r)
       THEN /\ pc' = "read"
            /\ UNCHANGED <<tx, cix_i, fetches>>
       ELSE /\ tx' = r
            /\ fetches' = [fetches EXCEPT ![Len(fetches)].found = TRUE]
            /\ IF Len(unwrap(r).instructions) = 0
               THEN pc' = "read" /\ cix_i' = 0
               ELSE pc' = "walk" /\ cix_i' = 1
    /\ UNCHANGED <<overflow_checks, initial_slot, slot, signature, file, nread,
                   exit_reason, last_msg, seen, calls, prov>>

\* a walk that skips the event whose write failed and goes on
decode_transaction_step_skipping(io_ok) ==
    /\ pc = "walk"
    /\ LET msg == unwrap(tx)
           cix == msg.instructions[cix_i]
           r == convert_compiled_instruction(cix, msg, overflow_checks)
           decoded == IF r.kind = "Some" THEN decode_instruction(r.ix) ELSE None
           is_swap == ~is_none(decoded) /\ unwrap(decoded).variant = "SwapBaseIn"
           last == cix_i = Len(msg.instructions)
       IN
       /\ calls' = Append(calls, [n |-> nread, k |-> cix_i, msg |-> msg, out |-> r,
                                  forwarded |-> r.kind = "Some", decoded |-> decoded,
                                  sink_failed |-> is_swap /\ ~io_ok])
       /\ IF r.kind = "Panic"
          THEN /\ pc' = "panicked"
               /\ UNCHANGED <<cix_i, file, prov>>
          ELSE /\ IF is_swap /\ io_ok
                  THEN /\ file' = save_event(file, signature, unwrap(decoded).amount_in,
                                             unwrap(decoded).minimum_amount_out, slot)
                       /\ prov' = Append(prov, [n |-> nread, k |-> cix_i])
                  ELSE UNCHANGED <<file, prov>>
               /\ IF last
                  THEN pc' = "read" /\ cix_i' = 0
                  ELSE pc' = "walk" /\ cix_i' = cix_i + 1
    /\ UNCHANGED <<overflow_checks, initial_slot, slot, signature, tx, nread,
                   exit_reason, last_msg, seen, fetches>>

\* main.rs:135-144  one turn of the for loop of decode_transaction; io_ok is
\* whether opening and writing swap_events.json succeed (main.rs:213-214 expect)
decode_transaction_step(io_ok) ==
    /\ pc = "walk"
    /\ LET msg == unwrap(tx)
           cix == msg.instructions[cix_i]
           r == convert_compiled_instruction(cix, msg, overflow_checks)
           decoded == IF r.kind = "Some" THEN decode_instruction(r.ix) ELSE None
           is_swap == ~is_none(decoded) /\ unwrap(decoded).variant = "SwapBaseIn"
           last == cix_i = Len(msg.instructions)
       IN
       /\ calls' = Append(calls, [n |-> nread, k |-> cix_i, msg |-> msg, out |-> r,
                                  forwarded |-> r.kind = "Some", decoded |-> decoded,
                                  sink_failed |-> is_swap /\ ~io_ok])
       /\ IF r.kind = "Panic" \/ (is_swap /\ ~io_ok)
          THEN /\ pc' = "panicked"
               /\ UNCHANGED <<cix_i, file, prov>>
          ELSE /\ IF is_swap
                  THEN /\ file' = save_event(file, signature, unwrap(decoded).amount_in,
                                             unwrap(decoded).minimum_amount_out, slot)
                       /\ prov' = Append(prov, [n |-> nread, k |-> cix_i])
                  ELSE UNCHANGED <<file, prov>>
               /\ IF last
                  THEN pc' = "read" /\ cix_i' = 0
                  ELSE pc' = "walk" /\ cix_i' = cix_i + 1
    /\ UNCHANGED <<overflow_checks, initial_slot, slot, signature, tx, nread,
                   exit_reason, last_msg, seen, fetches>>


(* ------------------------- inputs of Spec ------------------------------- *)

\* notifications: the JSON of a text frame, or text that does not parse
Frames(slots, signatures) ==
    {[parses |-> FALSE]} \cup
    {[parses |-> TRUE, json |-> [slot |-> s, signature |-> g]] :
        s \in {None} \cup {Some(v) : v \in slots},
        g \in signatures}

\* a second notification is inside the window (0 after 0, 0 after SlotLimit) or
\* closes it (SlotLimit after 0)
Slots == {0, SlotLimit}
TextFrames == Frames(Slots, {None, Some("sigA")})

\* a three-entry key table with the target program at index 1
Keys3 == <<"Key1", RAYDIUM_PROGRAM_ID, "Key3">>
HeaderA == [num_required_signatures |-> 1, num_readonly_signed_accounts |-> 0,
            num_readonly_unsigned_accounts |-> 1]

Cix(p, a, d) == [program_id_index |-> p, accounts |-> a, data |-> d]

ixSwapA      == Cix(1, <<0, 2>>, <<"SwapBaseIn", 5, 4>>)
ixSwapB      == Cix(1, <<0, 2>>, <<"SwapBaseIn", 7, 6>>)
ixOobProgram == Cix(3, <<0, 2>>, <<"SwapBaseIn", 5, 4>>)
ixForeign    == Cix(0, <<0, 2>>, <<"SwapBaseIn", 5, 4>>)
ixOobAccount == Cix(1, <<0, 3>>, <<"SwapBaseIn", 9, 8>>)
ixSwapOut    == Cix(1, <<0, 2>>, <<"SwapBaseOut", 5, 4>>)
ixTruncated  == Cix(1, <<0, 2>>, <<"SwapBaseIn", 5>>)
ixForeignOob == Cix(2, <<7>>, <<"SwapBaseIn", 3, 2>>)

Ixs == {ixSwapA, ixSwapB, ixOobProgram, ixForeign, ixOobAccount, ixSwapOut,
        ixTruncated, ixForeignOob}

Tx(h, keys, ixs) == [header |-> h, account_keys |-> keys, instructions |-> ixs]

\* every instruction kind followed by a swap, a lone swap, and the empty message
Transactions ==
    {Tx(HeaderA, Keys3, <<a, ixSwapB>>) : a \in Ixs} \cup
    {Tx(HeaderA, Keys3, <<ixSwapA>>), Tx(HeaderA, Keys3, <<>>)}

FailureKinds == {"send_error", "bad_json", "null_result", "not_a_string",
                 "bad_base64", "bad_bincode"}

ResponsesOver(txs) ==
    {[kind |-> k] : k \in FailureKinds} \cup {[kind |-> "ok", tx |-> t] : t \in txs}

Responses == ResponsesOver(Transactions)

Next ==
    \/ read_end
    \/ (nread < MaxNotifs /\ read_err)
    \/ (nread < MaxNotifs /\ read_other)
    \/ (nread < MaxNotifs /\ \E raw \in TextFrames : read_text(raw))
    \/ \E response \in Responses : fetch_returns(response)
    \/ decode_transaction_step(TRUE)
    \/ decode_transaction_step(FALSE)

Spec == Init /\ [][Next]_vars

(* ----------------------- inputs of SpecWindow --------------------------- *)

\* the slots of the example 100, 150, 199, 200, a lower slot, and the slots
\* at which the cast to i64 changes sign
WindowSlots == {0, SlotLimit, SlotLimit + 50, 2 * SlotLimit - 1, 2 * SlotLimit,
                HalfWord, WordMax}
WindowFrames == Frames(WindowSlots, {Some("sigA")})
WindowResponses == ResponsesOver({Tx(HeaderA, Keys3, <<ixSwapA>>)})

NextWindow ==
    \/ read_end
    \/ (nread < WindowNotifs /\ read_err)
    \/ (nread < WindowNotifs /\ read_other)
    \/ (nread < WindowNotifs /\ \E raw \in WindowFrames : read_text(raw))
    \/ \E response \in WindowResponses : fetch_returns(response)
    \/ decode_transaction_step(TRUE)
    \/ decode_transaction_step(FALSE)

SpecWindow == Init /\ [][NextWindow]_vars

(* ------------------------------ SpecLive -------------------------------- *)

\* the loop over the notifications of SpecWindow when every write succeeds
NextLive ==
    \/ read_end
    \/ (nread < WindowNotifs /\ read_err)
    \/ (nread < WindowNotifs /\ read_other)
    \/ (nread < WindowNotifs /\ \E raw \in WindowFrames : read_text(raw))
    \/ \E response \in WindowResponses : fetch_returns(response)
    \/ decode_transaction_step(TRUE)

\* every fetch returns and every turn of the walk, its write included, ends;
\* nothing is assumed about when, or whether, the stream delivers
FetchReturns == \E response \in WindowResponses : fetch_returns(response)
SpecLive ==
    /\ Init
    /\ [][NextLive]_vars
    /\ WF_vars(FetchReturns)
    /\ WF_vars(decode_transaction_step(TRUE))

(* ---------------------- inputs of SpecResolver -------------------------- *)

KeyNames == <<"Key1", "Key2", "Key3", "Key4", "Key5", "Key6", "Key7", "Key8">>

\* a key table of length len with the target program at position p (none if p = 0)
KeyTable(len, p) ==
    [j \in 1..len |-> IF j = p THEN RAYDIUM_PROGRAM_ID ELSE KeyNames[j]]

KeyTables == {KeyTable(len, p) : len \in 0..MaxKeys, p \in {0, 1, 2}}

Headers == [num_required_signatures : 0..MaxHdr,
            num_readonly_signed_accounts : 0..MaxHdr,
            num_readonly_unsigned_accounts : 0..MaxHdr]

\* account reference lists: the empty list, every single index, every pair of
\* indices, and the runs 0, 1, .., m; the index MaxKeys is outside every table
Indices == 0..MaxKeys
AccountLists ==
    {<<>>} \cup {<<i>> : i \in Indices} \cup {<<i, j>> : i, j \in Indices} \cup
    {[j \in 1..m |-> j - 1] : m \in 1..(MaxKeys + 1)}

ResolverTxs ==
    {Tx(h, keys, <<Cix(p, a, <<"SwapBaseIn", 5, 4>>)>>) :
        h \in Headers, keys \in KeyTables, p \in {0, 1, MaxKeys}, a \in AccountLists}

\* the state in which decode_transaction is entered for the first notification
InitResolver ==
    /\ overflow_checks \in BOOLEAN
    /\ pc = "walk"
    /\ initial_slot = Some(0)
    /\ slot = 0
    /\ signature = "sigA"
    /\ tx \in {Some(t) : t \in ResolverTxs}
    /\ cix_i = 1
    /\ file = <<>>
    /\ nread = 1
    /\ exit_reason = "none"
    /\ last_msg = [kind |-> "text",
                    raw |-> [parses |-> TRUE,
                             json |-> [slot |-> Some(0), signature |-> Some("sigA")]]]
    /\ seen = <<[n |-> 1, slot |-> 0, sig |-> Some("sigA")]>>
    /\ fetches = <<[n |-> 1, signature |-> "sigA", found |-> TRUE]>>
    /\ calls = <<>>
    /\ prov = <<>>

NextResolver ==
    \/ decode_transaction_step(TRUE)
    \/ decode_transaction_step(FALSE)

SpecResolver == InitResolver /\ [][NextResolver]_vars


(* ------------------------------ claims ---------------------------------- *)

\* the parts of a logged resolver call
CallCix(c) == c.msg.instructions[c.k]
CallKeys(c) == c.msg.account_keys
CallS(c) == c.msg.header.num_required_signatures
CallRS(c) == c.msg.header.num_readonly_signed_accounts
CallRU(c) == c.msg.header.num_readonly_unsigned_accounts
CallTargetsProgram(c) ==
    /\ CallCix(c).program_id_index < Len(CallKeys(c))
    /\ CallKeys(c)[CallCix(c).program_id_index + 1] = RAYDIUM_PROGRAM_ID
\* the in-range indices of the call's account reference list, in order
CallKept(c) == SelectSeq(CallCix(c).accounts, LAMBDA i : i < Len(CallKeys(c)))
CallHasInvalidAccount(c) ==
    \E j \in 1..Len(CallCix(c).accounts) : CallCix(c).accounts[j] >= Len(CallKeys(c))
\* the records written for instruction k of notification n
RecordsOf(n, k) == {x \in 1..Len(prov) : prov[x].n = n /\ prov[x].k = k}
Range(seq) == {seq[j] : j \in 1..Len(seq)}

\* C1: for every header with S >= RS, an instruction of the target program is
\* resolved, and each in-range account index i it references gives an account with
\* is_signer = (i < S) and is_writable = (i < (S - RS) + RU), boundaries included.
C1_PermissionDerivation ==
    \A x \in 1..Len(calls) :
        LET c == calls[x] IN
        (CallTargetsProgram(c) /\ CallS(c) >= CallRS(c)) =>
            /\ c.out.kind = "Some"
            /\ Len(c.out.ix.accounts) = Len(CallKept(c))
            /\ \A j \in 1..Len(CallKept(c)) :
                 LET i == CallKept(c)[j]
                     a == c.out.ix.accounts[j]
                 IN /\ a.pubkey = CallKeys(c)[i + 1]
                    /\ a.is_signer = (i < CallS(c))
                    /\ a.is_writable = (i < (CallS(c) - CallRS(c)) + CallRU(c))

\* C1 witness: a resolved call whose account list holds the four boundary
\* indices S-1, S, (S-RS)+RU-1 and (S-RS)+RU of a header with S > RS > 0, RU > 0
C1_Witness ==
    \E x \in 1..Len(calls) :
        LET c == calls[x] IN
        /\ c.out.kind = "Some"
        /\ CallS(c) > CallRS(c) /\ CallRS(c) > 0 /\ CallRU(c) > 0
        /\ {CallS(c) - 1, CallS(c), (CallS(c) - CallRS(c)) + CallRU(c) - 1,
            (CallS(c) - CallRS(c)) + CallRU(c)} \subseteq Range(CallKept(c))

\* C2: an instruction with an account index outside the key table is dropped as
\* a whole: it is not resolved, not handed to the decoder, and gives no record.
C2_InvalidAccountDropsInstruction ==
    \A x \in 1..Len(calls) :
        LET c == calls[x] IN
        CallHasInvalidAccount(c) =>
            /\ c.out.kind # "Some"
            /\ ~c.forwarded
            /\ RecordsOf(c.n, c.k) = {}

\* C5: header {2, 1, 1}, a 5-entry table and the account list [0,1,2,3] give the
\* flags (signer, writable) = (T,T), (T,F), (F,T), (F,F).
C5_Scenario ==
    \A x \in 1..Len(calls) :
        LET c == calls[x] IN
        (/\ CallTargetsProgram(c)
         /\ CallS(c) = 2 /\ CallRS(c) = 1 /\ CallRU(c) = 1
         /\ Len(CallKeys(c)) = 5
         /\ CallCix(c).accounts = <<0, 1, 2, 3>>) =>
            /\ c.out.kind = "Some"
            /\ Len(c.out.ix.accounts) = 4
            /\ [j \in 1..4 |-> <<c.out.ix.accounts[j].is_signer,
                                 c.out.ix.accounts[j].is_writable>>]
               = << <<TRUE, TRUE>>, <<TRUE, FALSE>>, <<FALSE, TRUE>>, <<FALSE, FALSE>> >>

\* C6: an instruction whose program index is outside the key table is skipped
\* without a crash: no instruction is resolved, nothing is decoded, no record is
\* written, and the walk goes on with the next instruction of the transaction.
C6_ProgramIndexBounds ==
    \A x \in 1..Len(calls) :
        LET c == calls[x] IN
        CallCix(c).program_id_index >= Len(CallKeys(c)) =>
            /\ c.out.kind = "None"
            /\ ~c.forwarded
            /\ c.decoded = None
            /\ RecordsOf(c.n, c.k) = {}
            /\ (x = Len(calls) => pc # "panicked")
            /\ (c.k < Len(c.msg.instructions) =>
                  \/ (x < Len(calls) /\ calls[x + 1].n = c.n /\ calls[x + 1].k = c.k + 1)
                  \/ (x = Len(calls) /\ pc = "walk" /\ nread = c.n /\ cix_i = c.k + 1))

\* C6 witness: the instruction after one with a program index out of range was
\* resolved, decoded and persisted
C6_Witness ==
    \E x \in 1..Len(calls) :
        /\ CallCix(calls[x]).program_id_index >= Len(CallKeys(calls[x]))
        /\ x < Len(calls)
        /\ calls[x + 1].n = calls[x].n
        /\ calls[x + 1].forwarded
        /\ RecordsOf(calls[x + 1].n, calls[x + 1].k) # {}

\* C7: an instruction whose resolved program id is not the target program is
\* never handed to the decoder and gives no record, whatever its payload and
\* account indices; every instruction handed to the decoder is the target's.
C7_FilterPrecision ==
    \A x \in 1..Len(calls) :
        LET c == calls[x] IN
        /\ (/\ CallCix(c).program_id_index < Len(CallKeys(c))
            /\ CallKeys(c)[CallCix(c).program_id_index + 1] # RAYDIUM_PROGRAM_ID) =>
               /\ ~c.forwarded
               /\ c.decoded = None
               /\ RecordsOf(c.n, c.k) = {}
        /\ c.forwarded => c.out.ix.program_id = RAYDIUM_PROGRAM_ID

\* C7 witness: two instructions of a foreign program with a swap payload were
\* walked, one of them with an account index out of range
C7_Witness ==
    /\ pc = "done"
    /\ \E x, y \in 1..Len(calls) :
        /\ CallCix(calls[x]) = ixForeign
        /\ CallCix(calls[y]) = ixForeignOob


\* the slot-carrying notification number n, the fetch issued for it
SeenOf(n) == {j \in 1..Len(seen) : seen[j].n = n}
FetchOf(n) == {j \in 1..Len(fetches) : fetches[j].n = n}
CallsOf(n) == {x \in 1..Len(calls) : calls[x].n = n}
ProvOf(n) == {x \in 1..Len(prov) : prov[x].n = n}
\* slots whose cast to i64 keeps their value
InI64(s) == s < HalfWord

\* C3 (as stated): the notification on which the window comparison signals
\* terminal is itself still processed: its transaction is fetched before the
\* loop ends.
C3_CrossingNotificationProcessed ==
    exit_reason = "window" => FetchOf(nread) # {}

\* C3 (amended): the window comparison is evaluated before the notification's
\* transaction is processed, and the notification on which it signals terminal is
\* not processed: no fetch is issued for it, it is not walked, it gives no record,
\* and the loop ends at once; every fetch is for a notification inside the window.
C3_CrossingNotificationSkipped ==
    /\ exit_reason = "window" =>
          /\ pc = "done"
          /\ seen # <<>> /\ seen[Len(seen)].n = nread
          /\ FetchOf(nread) = {} /\ CallsOf(nread) = {} /\ ProvOf(nread) = {}
    /\ \A j \in 1..Len(fetches) :
          \E e \in SeenOf(fetches[j].n) :
              (InI64(seen[e].slot) /\ InI64(seen[1].slot)) =>
                  seen[e].slot - seen[1].slot < SlotLimit

\* C3 witness: the loop ended on a notification exactly SlotLimit slots after the
\* first one, after an earlier notification had been fetched, walked and persisted
C3_Witness ==
    /\ exit_reason = "window"
    /\ Len(seen) >= 2
    /\ seen[Len(seen)].slot - seen[1].slot = SlotLimit
    /\ file # <<>>

\* C4: terminal is signalled on the first notification whose difference
\* slot - s0 is >= 100 and on no other: not on an earlier one, and never on a
\* difference of 99, 0 or below 0.
C4_WindowTermination ==
    \A j \in 1..Len(seen) :
        (seen[j].slot - seen[1].slot >= SlotLimit)
            <=> (j = Len(seen) /\ exit_reason = "window" /\ seen[j].n = nread)

\* C4 restricted to slots below 2^63 (the values the cast to i64 keeps)
C4_WindowTerminationInI64 ==
    (\A j \in 1..Len(seen) : InI64(seen[j].slot)) => C4_WindowTermination

\* the example of C4: slots 100, 150, 199, 200 end the loop at slot 200
C4_ExampleReached ==
    /\ [j \in 1..Len(seen) |-> seen[j].slot]
         = <<SlotLimit, SlotLimit + 50, 2 * SlotLimit - 1, 2 * SlotLimit>>
    /\ exit_reason = "window"

\* C8: a failure on one instruction (index out of range, filter reject, no
\* matching decoder variant) leaves the walk going with the next instruction, and
\* a failure of a notification's fetch leaves the session going: the loop is back
\* at reading the next notification, with the window state untouched.
C8_InstructionFails ==
    /\ Len(calls') = Len(calls) + 1
    /\ LET c == calls'[Len(calls')] IN
       \/ c.out.kind = "None"
       \/ (c.out.kind = "Some" /\ c.decoded = None)
       \/ (c.out.kind = "Some" /\ c.decoded # None
              /\ unwrap(c.decoded).variant # "SwapBaseIn")
C8_WalkGoesOn ==
    /\ file' = file
    /\ IF cix_i < Len(unwrap(tx).instructions)
       THEN pc' = "walk" /\ cix_i' = cix_i + 1 /\ tx' = tx
       ELSE pc' = "read"
C8_FetchFails ==
    /\ pc = "fetch"
    /\ pc' # "fetch"
    /\ ~fetches'[Len(fetches')].found
C8_SessionGoesOn ==
    /\ pc' = "read"
    /\ initial_slot' = initial_slot
    /\ exit_reason' = "none"
    /\ nread' = nread /\ file' = file
C8_SkipLevelPropagation ==
    [][(C8_InstructionFails => C8_WalkGoesOn) /\ (C8_FetchFails => C8_SessionGoesOn)]_vars

\* C8 witness: the first notification's fetch failed and the second one's
\* transaction, whose first instruction was skipped, gave a record
C8_Witness ==
    /\ \E j \in FetchOf(1) : ~fetches[j].found
    /\ \E x \in CallsOf(2) : calls[x].k = 1 /\ ~calls[x].forwarded
    /\ \E x \in ProvOf(2) : prov[x].k = 2
    /\ pc = "read"

\* C9: the records are in the arrival order of their notifications and, within
\* one transaction, in instruction order; record x is the event of instruction
\* prov[x].k of notification prov[x].n, so records of two notifications are
\* never interleaved.
C9_SequentialOrdering ==
    /\ Len(prov) = Len(file)
    /\ \A x, y \in 1..Len(prov) :
          x < y => \/ prov[x].n < prov[y].n
                   \/ (prov[x].n = prov[y].n /\ prov[x].k < prov[y].k)
    /\ \A x \in 1..Len(prov) :
          /\ x <= Len(file)
          /\ \E y \in CallsOf(prov[x].n) :
                /\ calls[y].k = prov[x].k
                /\ calls[y].decoded # None
                /\ unwrap(calls[y].decoded).variant = "SwapBaseIn"
                /\ file[x].amount_in = unwrap(calls[y].decoded).amount_in
                /\ file[x].min_amount_out = unwrap(calls[y].decoded).minimum_amount_out
          /\ \E e \in SeenOf(prov[x].n) : file[x].slot = seen[e].slot
          /\ \E j \in FetchOf(prov[x].n) :
                file[x].transaction_signature = fetches[j].signature
    /\ (pc \in {"fetch", "walk"} => fetches # <<>> /\ fetches[Len(fetches)].n = nread)
    /\ \A x \in 1..Len(calls) : calls[x].n <= nread

\* C9 witness: two notifications with different slots gave two records each
C9_Witness ==
    /\ Len(file) = 4
    /\ prov[1].n = 1 /\ prov[2].n = 1 /\ prov[3].n = 2 /\ prov[4].n = 2
    /\ file[1].slot # file[3].slot
    /\ file[1].amount_in # file[2].amount_in

\* C10: once the tracker has signalled terminal or the transport has reported an
\* error, no notification is read, no transaction is fetched, no instruction is
\* walked and no record is persisted.
C10_NothingMore ==
    /\ nread' = nread
    /\ fetches' = fetches
    /\ calls' = calls
    /\ file' = file
    /\ pc' = "done"
C10_TerminalAbsorbing ==
    [][(exit_reason \in {"window", "transport"}) => C10_NothingMore]_vars

\* C10 witness: the loop has ended on the window, or on a transport error, with
\* records on file while the stream still had messages to deliver
C10_Witness ==
    /\ exit_reason \in {"window", "transport"}
    /\ pc = "done"
    /\ file # <<>>
    /\ nread < WindowNotifs

\* a logged call whose instruction was resolved, passed the program filter and
\* decoded to the base-in swap variant
CallIsSwap(c) ==
    /\ c.forwarded
    /\ c.decoded # None
    /\ unwrap(c.decoded).variant = "SwapBaseIn"
\* the call during which the process was aborted
CallAborted(x) == x = Len(calls) /\ pc = "panicked"

\* C11: every instruction that resolves, passes the program filter and decodes
\* to the base-in swap variant has exactly one record, equal amounts included
\* (no de-duplication); an instruction that decodes to another variant, to
\* nothing, or is not forwarded has none; the file holds these records only.
C11_EventCount ==
    /\ \A x \in 1..Len(calls) :
          Cardinality(RecordsOf(calls[x].n, calls[x].k)) =
              IF CallIsSwap(calls[x]) /\ ~CallAborted(x) THEN 1 ELSE 0
    /\ Len(file) = Len(prov)
    /\ Len(file) = Cardinality({x \in 1..Len(calls) :
                                   CallIsSwap(calls[x]) /\ ~CallAborted(x)})
    /\ \A x \in 1..Len(prov) :
          \E y \in CallsOf(prov[x].n) : calls[y].k = prov[x].k

\* C11 witness: one transaction with two base-in swaps of identical amounts has
\* given two identical records, and an instruction of the other variant none
C11_Witness ==
    /\ Len(file) >= 2
    /\ prov[1].n = prov[2].n /\ prov[1].k = 1 /\ prov[2].k = 2
    /\ file[1] = file[2]
    /\ \E x \in 1..Len(calls) :
          /\ calls[x].decoded # None
          /\ unwrap(calls[x].decoded).variant = "SwapBaseOut"
          /\ RecordsOf(calls[x].n, calls[x].k) = {}

\* C12: every step leaves the earlier content of swap_events.json in place as a
\* prefix of the new content and adds at most one record, at the end; a step
\* that persists an event adds exactly one.
C12_KeepsPrefix ==
    /\ Len(file') >= Len(file)
    /\ Len(file') <= Len(file) + 1
    /\ SubSeq(file', 1, Len(file)) = file
    /\ (prov' # prov => Len(file') = Len(file) + 1)
C12_AppendOnly == [][C12_KeepsPrefix]_vars

\* C12 witness: a record has been appended behind two different earlier records
C12_Witness ==
    /\ Len(file) = 3
    /\ file[1] # file[2]
    /\ file[3] # file[1]

\* a text frame that carries no slot: unparsable text, or JSON without the field
MsgLacksSlot(m) ==
    /\ m.kind = "text"
    /\ (~m.raw.parses \/ m.raw.json.slot = None)

\* C13: a text notification without a slot (unparsable text included) is
\* dropped: it neither arms nor changes the window, issues no fetch, walks
\* nothing, gives no record, does not end the loop, and the loop reads on.
C13_Dropped ==
    /\ nread' = nread + 1
    /\ MsgLacksSlot(last_msg')
C13_NoEffect ==
    /\ initial_slot' = initial_slot
    /\ seen' = seen
    /\ fetches' = fetches
    /\ calls' = calls
    /\ file' = file
    /\ exit_reason' = exit_reason
    /\ pc' = "read"
C13_MissingSlotDropped == [][C13_Dropped => C13_NoEffect]_vars

\* C13 witness: after a first notification that armed the window and gave a
\* record, unparsable text was read: nothing was logged for it, the window is
\* as it was and the loop is reading on
C13_Witness ==
    /\ nread = 2
    /\ MsgLacksSlot(last_msg) /\ ~last_msg.raw.parses
    /\ initial_slot = Some(SlotLimit)
    /\ SeenOf(2) = {} /\ FetchOf(2) = {} /\ CallsOf(2) = {}
    /\ file # <<>>
    /\ pc = "read"

\* a text frame that carries a slot but no signature
MsgLacksSignature(m) ==
    /\ m.kind = "text"
    /\ m.raw.parses
    /\ m.raw.json.slot # None
    /\ m.raw.json.signature = None

\* C14: a notification with a slot and without a signature is handled like any
\* other: it is logged with its slot, the window comparison decides about it,
\* and inside the window a fetch is issued for the empty signature and the
\* records of its transaction carry the empty signature.
C14_MissingSignature ==
    /\ MsgLacksSignature(last_msg) =>
          /\ \E e \in SeenOf(nread) :
                seen[e].slot = unwrap(last_msg.raw.json.slot) /\ seen[e].sig = None
          /\ signature = ""
    /\ \A e \in 1..Len(seen) :
          seen[e].sig = None =>
              /\ IF seen[e].slot - seen[1].slot >= SlotLimit
                 THEN /\ FetchOf(seen[e].n) = {}
                      /\ e = Len(seen) /\ exit_reason = "window"
                 ELSE \E j \in FetchOf(seen[e].n) : fetches[j].signature = ""
              /\ \A x \in ProvOf(seen[e].n) : file[x].transaction_signature = ""

\* C14 witness: a notification without signature was inside the window, its
\* transaction was fetched for the empty signature and gave a record with the
\* empty signature; a later one without signature closed the window
C14_Witness ==
    /\ Len(seen) = 2
    /\ seen[1].sig = None /\ seen[2].sig = None
    /\ \E j \in FetchOf(seen[1].n) : fetches[j].signature = "" /\ fetches[j].found
    /\ \E x \in ProvOf(seen[1].n) : file[x].transaction_signature = ""
    /\ exit_reason = "window"

\* the step leaves the subscription loop by its normal exit
C15_LoopLeft == pc # "done" /\ pc' = "done"
\* the message just read is a notification on which the window comparison of
\* main.rs:75-78 gives a difference of SlotLimit or more
C15_WindowTerminal ==
    /\ nread' = nread + 1
    /\ last_msg'.kind = "text"
    /\ ~MsgLacksSlot(last_msg')
    /\ wrap_i64(as_i64(unwrap(last_msg'.raw.json.slot))
                 - as_i64(unwrap(initial_slot'))) >= SlotLimit
C15_TransportError == nread' = nread + 1 /\ last_msg'.kind = "err"
C15_StreamOver == nread' = nread /\ last_msg'.kind = "end"
\* a dropped notification, a non-text frame, the return of a fetch (failed or
\* not), a turn of the instruction walk (failed decode included)
C15_OtherEvent ==
    \/ C13_Dropped
    \/ (nread' = nread + 1 /\ last_msg'.kind = "other")
    \/ pc = "fetch"
    \/ pc = "walk"

\* C15 (as stated): the loop is left only because the window comparison
\* signalled terminal or the transport reported an error.
C15_OnlyWindowOrTransport ==
    pc = "done" =>
        \/ last_msg.kind = "err"
        \/ (last_msg.kind = "text" /\ exit_reason = "window")

\* C15 (amended): the loop is left only on a notification for which the window
\* comparison signals terminal, on a transport error, or when the stream is
\* over (read.next() gives None); a dropped notification, a non-text frame, a
\* failed fetch and a failed decode never make the loop return.
C15_CausesOfCancellation ==
    [][/\ C15_LoopLeft =>
             /\ pc = "read"
             /\ (C15_WindowTerminal \/ C15_TransportError \/ C15_StreamOver)
       /\ C15_OtherEvent => pc' # "done"]_vars

\* C15 witness: a non-text frame was read, a fetch failed, a transaction gave a
\* record, and the loop was left when the stream was over
C15_Witness ==
    /\ pc = "done"
    /\ last_msg.kind = "end"
    /\ exit_reason = "eof"
    /\ nread > Len(seen)
    /\ \E j \in 1..Len(fetches) : ~fetches[j].found
    /\ file # <<>>

\* the window is armed and the stream has delivered a notification whose slot is
\* SlotLimit or more above the initial slot, or the transport an error
C16_TerminalDelivered ==
    \/ /\ initial_slot # None
       /\ \E e \in 1..Len(seen) : seen[e].slot - unwrap(initial_slot) >= SlotLimit
    \/ last_msg.kind = "err"

\* C16: once the stream has delivered a notification with slot - s0 >= 100, or
\* the transport an error, the loop eventually ends and connect_to_quicknode_ws
\* returns, every fetch and every write returning.
C16_EventualTermination == C16_TerminalDelivered ~> (pc = "done")

\* C16 for slots whose cast to i64 keeps their value
C16_EventualTerminationInI64 ==
    (C16_TerminalDelivered /\ \A e \in 1..Len(seen) : InI64(seen[e].slot))
        ~> (pc = "done")

\* C17: a failure to open or write swap_events.json during save_event aborts
\* the process: the event is not skipped, and from then on no notification is
\* read, no transaction fetched, no instruction walked and no record persisted.
C17_SinkFails == calls' # calls /\ calls'[Len(calls')].sink_failed
C17_Aborted ==
    /\ pc' = "panicked"
    /\ nread' = nread
    /\ fetches' = fetches
    /\ file' = file
C17_FatalSinkFailure ==
    [][/\ C17_SinkFails => C17_Aborted
       /\ pc = "panicked" => (C17_Aborted /\ calls' = calls)]_vars

\* C17 witness: the write of the second swap of a transaction failed after the
\* first one was recorded; the process is aborted while the stream had more to
\* deliver, and the failed event has no record
C17_Witness ==
    /\ pc = "panicked"
    /\ calls # <<>>
    /\ calls[Len(calls)].sink_failed
    /\ calls[Len(calls)].k = 2
    /\ RecordsOf(calls[Len(calls)].n, 2) = {}
    /\ RecordsOf(calls[Len(calls)].n, 1) # {}
    /\ nread < MaxNotifs

\* C18: initial_slot is unset until a slot-carrying notification is read, is then
\* the slot of the first one, and no later notification changes it, whether its
\* slot is higher, equal or lower.
C18_InitialSlot ==
    /\ (seen = <<>> <=> initial_slot = None)
    /\ (seen # <<>> => initial_slot = Some(seen[1].slot))
C18_NeverChanged == initial_slot # None => initial_slot' = initial_slot
C18_InitialSlotImmutable ==
    [][C18_InitialSlot /\ C18_InitialSlot' /\ C18_NeverChanged]_vars

\* C18 witness: after the first slot a higher, an equal and a lower slot were
\* read, and initial_slot is still the first one
C18_Witness ==
    /\ Len(seen) = 4
    /\ seen[2].slot > seen[1].slot
    /\ seen[3].slot = seen[1].slot
    /\ seen[4].slot < seen[1].slot
    /\ initial_slot = Some(seen[1].slot)
    /\ pc = "read"

\* C19: for every header, S < RS included, resolving an instruction of the
\* target program does not abort the process: the instruction is resolved or
\* skipped, and the writable boundary used is (S - RS) + RU itself, not a value
\* wrapped around the word size.
C19_NoUnderflow ==
    \A x \in 1..Len(calls) :
        LET c == calls[x] IN
        CallTargetsProgram(c) =>
            /\ c.out.kind \in {"Some", "None"}
            /\ c.out.kind = "Some" =>
                  \A j \in 1..Len(CallKept(c)) :
                      c.out.ix.accounts[j].is_writable =
                          (CallKept(c)[j] < (CallS(c) - CallRS(c)) + CallRU(c))

\* C19 for the headers that keep S >= RS
C19_NoUnderflowValidHeader ==
    \A x \in 1..Len(calls) :
        LET c == calls[x] IN
        (CallTargetsProgram(c) /\ CallS(c) >= CallRS(c)) => c.out.kind = "Some"

\* the provenance of record x: it carries the slot and the signature of the
\* notification that was being handled when it was written
C20_Provenance(x) ==
    /\ \E e \in SeenOf(prov[x].n) :
          /\ file[x].slot = seen[e].slot
          /\ file[x].transaction_signature = unwrap_or(seen[e].sig, "")
    /\ prov[x].n <= nread

\* C20: every record on file carries the slot and the signature of the
\* notification during whose handling it was written, and its slot is less
\* than SlotLimit above initial_slot.
C20_RecordsInsideWindow ==
    /\ Len(prov) = Len(file)
    /\ \A x \in 1..Len(file) :
          /\ C20_Provenance(x)
          /\ initial_slot # None
          /\ file[x].slot - unwrap(initial_slot) < SlotLimit

\* C20 for slots whose cast to i64 keeps their value
C20_RecordsInsideWindowInI64 ==
    /\ Len(prov) = Len(file)
    /\ \A x \in 1..Len(file) :
          /\ C20_Provenance(x)
          /\ initial_slot # None
          /\ (InI64(file[x].slot) /\ InI64(unwrap(initial_slot))) =>
                file[x].slot - unwrap(initial_slot) < SlotLimit

====
